---- MODULE Spec2Model ----
(***************************************************************************)
(* Model of the ranked prefix-search trie of src/src/trie.rs.              *)
(*                                                                         *)
(* The owned tree (each TrieNode owns its children map) is a nested        *)
(* record; strings are sequences of characters; Option<T> is None or       *)
(* Some(x).  HashMap iteration order and the order in which BinaryHeap     *)
(* hands out equal-keyed elements are not fixed by the program, so every   *)
(* order is a possible outcome.  Spec bounds the calls to MaxInserts       *)
(* inserts, SpecWide to WideInserts.                                       *)
(***************************************************************************)
EXTENDS Integers, Sequences, FiniteSets, TLC

\* ---------------------------------------------------------------- bounds
\* longest word inserted or queried
MaxLen == 2
\* greatest score and greatest k
MaxScore == 1
MaxK == 2
\* number of insert calls under Spec
MaxInserts == 2
\* number of insert calls under SpecWide
WideInserts == 3

Alphabet == {"a", "b"}
Words == UNION {[1..n -> Alphabet] : n \in 0..MaxLen}
\* scores are i64: a negative one, the default 0 and the positive ones up to max_score
Scores(max_score) == (0 - 1)..max_score
Ks(max_k) == 0..max_k

\* ---------------------------------------------------------------- Option
None == [some |-> FALSE]
Some(x) == [some |-> TRUE, val |-> x]

\* char::default(), what Option<char>::unwrap_or_default gives for None
DefaultChar == "nul"

Max(a, b) == IF a >= b THEN a ELSE b

\* ---------------------------------------------------------------- TrieNode
Final == "Final"
Intermediate == "Intermediate"

\* TrieNode::new with node_score starting below every score of the model
\* instead of at 0
TrieNode_new_LowScore(value) ==
    [value |-> value,
     children |-> <<>>,
     node_type |-> Intermediate,
     word_score |-> None,
     node_score |-> 0 - 2]

\* TrieNode::new
TrieNode_new(value) ==
    [value |-> value,
     children |-> <<>>,
     node_type |-> Intermediate,
     word_score |-> None,
     node_score |-> 0]

\* ---------------------------------------------------------------- Trie
Trie_new == TrieNode_new(None)

\* Trie::_insert with the assignment next_node.node_score = score, the
\* cmp::max lost
RECURSIVE _insert_walk_OverwritesScore(_, _, _)
_insert_walk_OverwritesScore(current_node, word, score) ==
    IF word = <<>>
    THEN [current_node EXCEPT !.node_type = Final, !.word_score = Some(score)]
    ELSE LET char == Head(word)
             entry == IF char \in DOMAIN current_node.children
                      THEN current_node.children[char]
                      ELSE TrieNode_new(Some(char))
             next_node == [entry EXCEPT !.node_score = score]
         IN [current_node EXCEPT !.children =
                (char :> _insert_walk_OverwritesScore(next_node, Tail(word), score))
                    @@ current_node.children]

\* Trie::_insert with the node_score update moved after the loop: only the
\* terminal node gets it.
RECURSIVE _insert_walk_ScoresTerminalOnly(_, _, _)
_insert_walk_ScoresTerminalOnly(current_node, word, score) ==
    IF word = <<>>
    THEN [current_node EXCEPT !.node_type = Final, !.word_score = Some(score)]
    ELSE LET char == Head(word)
             entry == IF char \in DOMAIN current_node.children
                      THEN current_node.children[char]
                      ELSE TrieNode_new(Some(char))
             next_node == IF Tail(word) = <<>>
                          THEN [entry EXCEPT !.node_score = Max(entry.node_score, score)]
                          ELSE entry
         IN [current_node EXCEPT !.children =
                (char :> _insert_walk_ScoresTerminalOnly(next_node, Tail(word), score))
                    @@ current_node.children]

\* Trie::_insert, the walk from current_node over the remaining characters.
RECURSIVE _insert_walk(_, _, _)
_insert_walk(current_node, word, score) ==
    IF word = <<>>
    THEN [current_node EXCEPT !.node_type = Final, !.word_score = Some(score)]
    ELSE LET char == Head(word)
             entry == IF char \in DOMAIN current_node.children
                      THEN current_node.children[char]
                      ELSE TrieNode_new(Some(char))
             next_node == [entry EXCEPT !.node_score = Max(entry.node_score, score)]
         IN [current_node EXCEPT !.children =
                (char :> _insert_walk(next_node, Tail(word), score)) @@ current_node.children]

\* Trie::_insert
_insert(trie, word, score) == _insert_walk(trie, word, score)

\* ---------------------------------------------------------------- wrappers
OutputWrapper(nodes) == [nodes_previous |-> nodes]
QueueWrapper(nodes) == [nodes_previous |-> nodes]

\* OutputWrapper::last / QueueWrapper::last
last(w) ==
    IF Len(w.nodes_previous) = 0 THEN None
    ELSE Some(w.nodes_previous[Len(w.nodes_previous)])

\* OutputWrapper::leaf_type / QueueWrapper::leaf_type
leaf_type(w) ==
    IF last(w).some THEN Some(last(w).val.node_type) ELSE None

\* OutputWrapper::join
join(w) ==
    [i \in 1..Len(w.nodes_previous) |->
        IF w.nodes_previous[i].value.some
        THEN w.nodes_previous[i].value.val
        ELSE DefaultChar]

\* Trie::_search with the early return lost: a missing transition ends the
\* walk with the path matched so far.
RECURSIVE _search_walk_KeepsPartialPath(_, _, _)
_search_walk_KeepsPartialPath(node, nodes_previous, word) ==
    IF word = <<>>
    THEN Some(OutputWrapper(nodes_previous))
    ELSE IF Head(word) \in DOMAIN node.children
         THEN LET next_node == node.children[Head(word)]
              IN _search_walk_KeepsPartialPath(next_node, Append(nodes_previous, next_node),
                                             Tail(word))
         ELSE Some(OutputWrapper(nodes_previous))

\* Trie::_search, the walk from node with nodes_previous collected so far.
RECURSIVE _search_walk(_, _, _)
_search_walk(node, nodes_previous, word) ==
    IF word = <<>>
    THEN Some(OutputWrapper(nodes_previous))
    ELSE IF Head(word) \in DOMAIN node.children
         THEN LET next_node == node.children[Head(word)]
              IN _search_walk(next_node, Append(nodes_previous, next_node), Tail(word))
         ELSE None

\* Trie::_search
_search(trie, word) == _search_walk(trie, <<>>, word)

\* Trie::search without the leaf_type match
search_IgnoresLeafType(trie, word) ==
    LET found == _search(trie, word)
    IN IF found.some THEN Some(join(found.val)) ELSE None

\* Trie::search
search(trie, word) ==
    LET found == _search(trie, word)
    IN IF found.some
       THEN IF leaf_type(found.val) = Some(Final)
            THEN Some(join(found.val))
            ELSE None
       ELSE None

\* Trie::starts_with succeeding on Final nodes only
starts_with_RequiresFinal(trie, prefix) ==
    LET found == _search(trie, prefix)
    IN IF found.some /\ leaf_type(found.val) = Some(Final)
       THEN Some(join(found.val))
       ELSE None

\* Trie::starts_with
starts_with(trie, prefix) ==
    LET found == _search(trie, prefix)
    IN IF found.some THEN Some(join(found.val)) ELSE None

\* ---------------------------------------------------------------- ranked query
\* QueueWrapper::output_score, the key of the frontier heap
QueueWrapper_output_score(w) ==
    IF last(w).some THEN last(w).val.node_score ELSE 0

\* OutputWrapper::output_score, the key of the found_nodes heap
OutputWrapper_output_score(w) ==
    IF last(w).some
    THEN IF last(w).val.word_score.some
         THEN last(w).val.word_score.val
         ELSE 0
    ELSE 0

\* OutputWrapper::to_queue_wrapper
to_queue_wrapper(w) == QueueWrapper(w.nodes_previous)

\* QueueWrapper::to_output_wrapper
to_output_wrapper(w) == OutputWrapper(w.nodes_previous)

\* QueueWrapper::fart
fart(w, node) == QueueWrapper(Append(w.nodes_previous, node))

\* QueueWrapper::children, the values of the last node's children map
children(w) ==
    IF last(w).some
    THEN Some({last(w).val.children[c] : c \in DOMAIN last(w).val.children})
    ELSE None

\* BinaryHeap::pop: the elements pop may return, those of greatest key
heap_pop(heap) ==
    {w \in heap : \A v \in heap : QueueWrapper_output_score(v) <= QueueWrapper_output_score(w)}

\* The loop body with the expansion made the else branch of the Final test:
\* a Final node is emitted and its children are dropped.
LoopBody_FinalNotExpanded(heap, found_nodes, max_word_score, queue_wrapper) ==
    LET is_final == leaf_type(queue_wrapper) = Some(Final)
        its_children == children(queue_wrapper)
    IN [heap |-> (heap \ {queue_wrapper}) \cup
                 (IF its_children.some /\ ~is_final
                  THEN {fart(queue_wrapper, child) : child \in its_children.val}
                  ELSE {}),
        found_nodes |-> IF is_final
                        THEN found_nodes \cup {to_output_wrapper(queue_wrapper)}
                        ELSE found_nodes,
        max_word_score |-> IF is_final
                           THEN Max(max_word_score, QueueWrapper_output_score(queue_wrapper))
                           ELSE max_word_score]

\* One iteration of the while loop of Trie::_get_ranked_results on the popped
\* queue_wrapper: the frontier, found_nodes and max_word_score it leaves.
LoopBody(heap, found_nodes, max_word_score, queue_wrapper) ==
    LET is_final == leaf_type(queue_wrapper) = Some(Final)
        its_children == children(queue_wrapper)
    IN [heap |-> (heap \ {queue_wrapper}) \cup
                 (IF its_children.some
                  THEN {fart(queue_wrapper, child) : child \in its_children.val}
                  ELSE {}),
        found_nodes |-> IF is_final
                        THEN found_nodes \cup {to_output_wrapper(queue_wrapper)}
                        ELSE found_nodes,
        max_word_score |-> IF is_final
                           THEN Max(max_word_score, QueueWrapper_output_score(queue_wrapper))
                           ELSE max_word_score]

\* The break condition of the while loop of Trie::_get_ranked_results
LoopBreaks(k, queue_wrapper, max_word_score, found_nodes) ==
    /\ k # 0
    /\ QueueWrapper_output_score(queue_wrapper) < max_word_score
    /\ Cardinality(found_nodes) >= k

\* The while loop of Trie::_get_ranked_results: every found_nodes collection
\* it can end with.
RECURSIVE RankedLoop(_, _, _, _)
RankedLoop(heap, found_nodes, max_word_score, k) ==
    IF heap = {}
    THEN {found_nodes}
    ELSE UNION {
            IF LoopBreaks(k, queue_wrapper, max_word_score, found_nodes)
            THEN {found_nodes}
            ELSE LET after == LoopBody(heap, found_nodes, max_word_score, queue_wrapper)
                 IN RankedLoop(after.heap, after.found_nodes, after.max_word_score, k)
            : queue_wrapper \in heap_pop(heap)}

\* BinaryHeap::into_sorted_vec: ascending by OutputWrapper's Ord, equal keys
\* in any order
RECURSIVE into_sorted_vec(_)
into_sorted_vec(found_nodes) ==
    IF found_nodes = {}
    THEN {<<>>}
    ELSE UNION {
            {<<w>> \o rest : rest \in into_sorted_vec(found_nodes \ {w})}
            : w \in {x \in found_nodes :
                        \A y \in found_nodes : OutputWrapper_output_score(x) <= OutputWrapper_output_score(y)}}

\* The result chain without .rev()
rev_Missing(seq) == seq

\* Iterator::rev
rev(seq) == [i \in 1..Len(seq) |-> seq[Len(seq) + 1 - i]]

\* The tail of Trie::_get_ranked_results: into_sorted_vec().iter().rev().map(join)
CollectResult(found_nodes) ==
    {[i \in 1..Len(sorted) |-> join(rev(sorted)[i])] : sorted \in into_sorted_vec(found_nodes)}

\* Trie::_get_ranked_results answering a missing prefix with an empty vector
_get_ranked_results_EmptyWhenAbsent(trie, prefix, k) ==
    LET output_wrapper == _search(trie, prefix)
    IN IF output_wrapper.some
       THEN {Some(result) :
                result \in UNION {CollectResult(found_nodes) :
                    found_nodes \in RankedLoop({to_queue_wrapper(output_wrapper.val)}, {}, 0, k)}}
       ELSE {Some(<<>>)}

\* Trie::_get_ranked_results: every value the call can return
_get_ranked_results(trie, prefix, k) ==
    LET output_wrapper == _search(trie, prefix)
    IN IF output_wrapper.some
       THEN {Some(result) :
                result \in UNION {CollectResult(found_nodes) :
                    found_nodes \in RankedLoop({to_queue_wrapper(output_wrapper.val)}, {}, 0, k)}}
       ELSE {None}

\* Trie::get_ranked_results
get_ranked_results(trie, prefix) == _get_ranked_results(trie, prefix, 0)

\* Trie::get_k_ranked_results
get_k_ranked_results(trie, prefix, k) == _get_ranked_results(trie, prefix, k)

\* Trie::insert
insert(trie, word) == _insert(trie, word, 0)

\* Trie::insert_with_score
insert_with_score(trie, word, score) == _insert(trie, word, score)

\* ---------------------------------------------------------------- ArenaTrie
\* The arena_trie.rs variant: the nodes live in one Vec (behind an RwLock, each
\* method holding it for the whole call) and a node's children are indices
\* into it.

\* ArenaTrieNodeType
ArenaFinal(word) == [kind |-> Final, word |-> word]
ArenaIntermediate == [kind |-> Intermediate]

\* ArenaTrieNode::new
ArenaTrieNode_new ==
    [children |-> <<>>,
     node_type |-> ArenaIntermediate,
     word_score |-> None,
     aggregate_score |-> 0]

\* ArenaTrie::new: the arena holds the root, at index 0
ArenaTrie_new == <<ArenaTrieNode_new>>

\* arena[idx], a Vec indexed from 0
ArenaAt(nodes, idx) == nodes[idx + 1]

\* ArenaTrieNode::get_ranking_score
get_ranking_score(node) ==
    IF node.word_score.some THEN node.word_score.val ELSE node.aggregate_score

\* ArenaTrie::_insert, the loop from current_node_index over the remaining
\* characters: the arena and the index it ends with.
RECURSIVE ArenaTrie_insert_walk(_, _, _)
ArenaTrie_insert_walk(nodes, current_node_index, chars) ==
    IF chars = <<>>
    THEN [arena |-> nodes, index |-> current_node_index]
    ELSE LET char == Head(chars)
         IN IF char \in DOMAIN ArenaAt(nodes, current_node_index).children
            THEN ArenaTrie_insert_walk(
                     nodes, ArenaAt(nodes, current_node_index).children[char], Tail(chars))
            ELSE LET next_idx == Len(nodes)
                     pushed == Append(nodes, ArenaTrieNode_new)
                     linked == [pushed EXCEPT ![current_node_index + 1].children =
                                   (char :> next_idx) @@ @]
                 IN ArenaTrie_insert_walk(linked, next_idx, Tail(chars))

\* ArenaTrie::_insert
ArenaTrie__insert(nodes, word, score) ==
    LET walked == ArenaTrie_insert_walk(nodes, 0, word)
    IN [walked.arena EXCEPT ![walked.index + 1].node_type = ArenaFinal(word),
                            ![walked.index + 1].word_score = Some(score)]

\* ArenaTrie::insert
ArenaTrie_insert(nodes, word) == ArenaTrie__insert(nodes, word, 0)

\* ArenaTrie::insert_with_score
ArenaTrie_insert_with_score(nodes, word, score) == ArenaTrie__insert(nodes, word, score)

\* ArenaTrie::_search, the loop from current_node_index
RECURSIVE ArenaTrie_search_walk(_, _, _)
ArenaTrie_search_walk(nodes, current_node_index, chars) ==
    IF chars = <<>>
    THEN Some(current_node_index)
    ELSE IF Head(chars) \in DOMAIN ArenaAt(nodes, current_node_index).children
         THEN ArenaTrie_search_walk(
                  nodes, ArenaAt(nodes, current_node_index).children[Head(chars)], Tail(chars))
         ELSE None

\* ArenaTrie::_search
ArenaTrie__search(nodes, word) == ArenaTrie_search_walk(nodes, 0, word)

\* ArenaTrie::search
ArenaTrie_search(nodes, word) ==
    LET found == ArenaTrie__search(nodes, word)
    IN IF found.some
       THEN IF ArenaAt(nodes, found.val).node_type.kind = Final
            THEN Some(ArenaAt(nodes, found.val).node_type.word)
            ELSE None
       ELSE None

\* ArenaTrie::starts_with
ArenaTrie_starts_with(nodes, prefix) ==
    IF ArenaTrie__search(nodes, prefix).some THEN Some(prefix) ELSE None

\* the indices a node's children map holds
ArenaChildren(nodes, idx) ==
    {ArenaAt(nodes, idx).children[c] : c \in DOMAIN ArenaAt(nodes, idx).children}

\* The while loop of ArenaTrie::get_ranked_results; heap and found_nodes hold
\* references into the arena, here the indices. Every found_nodes it can end
\* with, pop returning any element of greatest ranking score.
RECURSIVE ArenaRankedLoop(_, _, _)
ArenaRankedLoop(nodes, heap, found_nodes) ==
    IF heap = {}
    THEN {found_nodes}
    ELSE UNION {
            ArenaRankedLoop(
                nodes,
                (heap \ {next_node}) \cup ArenaChildren(nodes, next_node),
                IF ArenaAt(nodes, next_node).node_type.kind = Final
                THEN found_nodes \cup {next_node}
                ELSE found_nodes)
            : next_node \in {i \in heap : \A j \in heap :
                                get_ranking_score(ArenaAt(nodes, j))
                                    <= get_ranking_score(ArenaAt(nodes, i))}}

\* BinaryHeap::into_sorted_vec of found_nodes: ascending by ArenaTrieNode's
\* Ord, equal keys in any order
RECURSIVE ArenaIntoSortedVec(_, _)
ArenaIntoSortedVec(nodes, found_nodes) ==
    IF found_nodes = {}
    THEN {<<>>}
    ELSE UNION {
            {<<i>> \o rest : rest \in ArenaIntoSortedVec(nodes, found_nodes \ {i})}
            : i \in {x \in found_nodes : \A y \in found_nodes :
                        get_ranking_score(ArenaAt(nodes, x))
                            <= get_ranking_score(ArenaAt(nodes, y))}}

\* the words of the Final nodes of a vector of references (filter_map)
RECURSIVE ArenaFinalWords(_, _)
ArenaFinalWords(nodes, refs) ==
    IF refs = <<>>
    THEN <<>>
    ELSE (IF ArenaAt(nodes, Head(refs)).node_type.kind = Final
          THEN <<ArenaAt(nodes, Head(refs)).node_type.word>>
          ELSE <<>>) \o ArenaFinalWords(nodes, Tail(refs))

\* ArenaTrie::get_ranked_results: every value the call can return
ArenaTrie_get_ranked_results(nodes, prefix) ==
    LET anchor == ArenaTrie__search(nodes, prefix)
    IN IF anchor.some
       THEN {Some(ArenaFinalWords(nodes, rev(sorted))) :
                sorted \in UNION {ArenaIntoSortedVec(nodes, found_nodes) :
                    found_nodes \in ArenaRankedLoop(
                                        nodes, ArenaChildren(nodes, anchor.val), {})}}
       ELSE {None}

\* ---------------------------------------------------------------- state
\* root:     Trie.root, the owned tree
\* inserted: the words passed to insert / insert_with_score so far, each with
\*           the score of its latest insertion
\* best:     for each of these words, the greatest score of all its insertions
\* ninserts: the number of insert / insert_with_score calls made
\* lastCall: the query whose returned value the caller holds, NoCall when none
VARIABLES root, inserted, best, ninserts, lastCall, arena, arenaResult

vars == <<root, inserted, best, ninserts, lastCall, arena, arenaResult>>

\* what a query leaves as it is: the tries and the record of the insertions
trieVars == <<root, inserted, best, ninserts, arena>>

\* the record of the insertions after one more: word with score
Recorded(word, score) ==
    /\ inserted' = (word :> score) @@ inserted
    /\ best' = (word :> IF word \in DOMAIN best THEN Max(best[word], score) ELSE score) @@ best
    /\ ninserts' = ninserts + 1

NoCall == [op |-> "none", arg |-> <<>>, k |-> 0, result |-> None]

Init ==
    /\ root = Trie_new
    /\ inserted = <<>>
    /\ best = <<>>
    /\ ninserts = 0
    /\ lastCall = NoCall
    /\ arena = ArenaTrie_new
    /\ arenaResult = None

\* Calls are made one at a time by a single caller (insert takes &mut self):
\* the caller makes its next call once it has dropped the value the previous
\* query returned.
Idle == lastCall = NoCall

\* a call of Trie::insert
Insert(max_inserts) ==
    /\ Idle
    /\ \E word \in Words :
           /\ ninserts < max_inserts
           /\ root' = insert(root, word)
           /\ Recorded(word, 0)
           /\ UNCHANGED <<lastCall, arena, arenaResult>>

\* a call of Trie::insert_with_score
InsertWithScore(max_inserts, max_score) ==
    /\ Idle
    /\ \E word \in Words, score \in Scores(max_score) :
           /\ ninserts < max_inserts
           /\ root' = insert_with_score(root, word, score)
           /\ Recorded(word, score)
           /\ UNCHANGED <<lastCall, arena, arenaResult>>

\* a call of Trie::search
Search ==
    /\ Idle
    /\ \E word \in Words :
           /\ lastCall' = [op |-> "search", arg |-> word, k |-> 0, result |-> search(root, word)]
           /\ UNCHANGED <<trieVars, arenaResult>>

\* a call of Trie::starts_with
StartsWith ==
    /\ Idle
    /\ \E prefix \in Words :
           /\ lastCall' = [op |-> "starts_with", arg |-> prefix, k |-> 0,
                           result |-> starts_with(root, prefix)]
           /\ UNCHANGED <<trieVars, arenaResult>>

\* a call of Trie::get_ranked_results
GetRankedResults ==
    /\ Idle
    /\ \E prefix \in Words :
           \E result \in get_ranked_results(root, prefix) :
               /\ lastCall' = [op |-> "get_ranked_results", arg |-> prefix, k |-> 0,
                               result |-> result]
               /\ UNCHANGED <<trieVars, arenaResult>>

\* a call of Trie::get_k_ranked_results
GetKRankedResults(max_k) ==
    /\ Idle
    /\ \E prefix \in Words, k \in Ks(max_k) :
           \E result \in get_k_ranked_results(root, prefix, k) :
               /\ lastCall' = [op |-> "get_k_ranked_results", arg |-> prefix, k |-> k,
                               result |-> result]
               /\ UNCHANGED <<trieVars, arenaResult>>

\* the caller drops the value the query returned (an owned Option<String> or
\* Option<Vec<String>>, a temporary of the calling statement)
DropResult ==
    /\ ~Idle
    /\ lastCall' = NoCall
    /\ arenaResult' = None
    /\ UNCHANGED trieVars

Next ==
    \/ Insert(MaxInserts)
    \/ InsertWithScore(MaxInserts, MaxScore)
    \/ Search
    \/ StartsWith
    \/ GetRankedResults
    \/ GetKRankedResults(MaxK)
    \/ DropResult

Spec == Init /\ [][Next]_vars

NextWide ==
    \/ Insert(WideInserts)
    \/ InsertWithScore(WideInserts, MaxScore)
    \/ Search
    \/ StartsWith
    \/ GetRankedResults
    \/ GetKRankedResults(MaxK)
    \/ DropResult

\* The same program with one more insert call.
SpecWide == Init /\ [][NextWide]_vars

\* A caller that holds a Trie and an ArenaTrie and makes every call on both:
\* lastCall is what the Trie returned, arenaResult what the ArenaTrie returned.

\* Trie::insert and ArenaTrie::insert of one word
InsertBoth(max_inserts) ==
    /\ Idle
    /\ \E word \in Words :
           /\ ninserts < max_inserts
           /\ root' = insert(root, word)
           /\ arena' = ArenaTrie_insert(arena, word)
           /\ Recorded(word, 0)
           /\ UNCHANGED <<lastCall, arenaResult>>

\* Trie::insert_with_score and ArenaTrie::insert_with_score of one word
InsertWithScoreBoth(max_inserts, max_score) ==
    /\ Idle
    /\ \E word \in Words, score \in Scores(max_score) :
           /\ ninserts < max_inserts
           /\ root' = insert_with_score(root, word, score)
           /\ arena' = ArenaTrie_insert_with_score(arena, word, score)
           /\ Recorded(word, score)
           /\ UNCHANGED <<lastCall, arenaResult>>

\* Trie::search and ArenaTrie::search of one word
SearchBoth ==
    /\ Idle
    /\ \E word \in Words :
           /\ lastCall' = [op |-> "search", arg |-> word, k |-> 0, result |-> search(root, word)]
           /\ arenaResult' = ArenaTrie_search(arena, word)
           /\ UNCHANGED trieVars

\* Trie::starts_with and ArenaTrie::starts_with of one prefix
StartsWithBoth ==
    /\ Idle
    /\ \E prefix \in Words :
           /\ lastCall' = [op |-> "starts_with", arg |-> prefix, k |-> 0,
                           result |-> starts_with(root, prefix)]
           /\ arenaResult' = ArenaTrie_starts_with(arena, prefix)
           /\ UNCHANGED trieVars

\* Trie::get_ranked_results and ArenaTrie::get_ranked_results of one prefix
GetRankedResultsBoth ==
    /\ Idle
    /\ \E prefix \in Words :
           \E result \in get_ranked_results(root, prefix),
              arena_result \in ArenaTrie_get_ranked_results(arena, prefix) :
               /\ lastCall' = [op |-> "get_ranked_results", arg |-> prefix, k |-> 0,
                               result |-> result]
               /\ arenaResult' = arena_result
               /\ UNCHANGED trieVars

NextArena ==
    \/ InsertBoth(WideInserts)
    \/ InsertWithScoreBoth(WideInserts, MaxScore)
    \/ SearchBoth
    \/ StartsWithBoth
    \/ GetRankedResultsBoth
    \/ DropResult

SpecArena == Init /\ [][NextArena]_vars

\* ---------------------------------------------------------------- vocabulary of the claims
\* p is a prefix of w (p = w included)
IsPrefix(p, w) == Len(p) <= Len(w) /\ SubSeq(w, 1, Len(p)) = p

\* w has prefix p and is longer than p
ProperlyExtends(w, p) == IsPrefix(p, w) /\ w # p

\* the words passed to insert / insert_with_score so far
InsertedWords == DOMAIN inserted

\* p is a prefix of some inserted word
PrefixOfInserted(p) == \E w \in InsertedWords : IsPrefix(p, w)

\* the character path of p exists: the root always does
PathExists(p) == p = <<>> \/ PrefixOfInserted(p)

RankedOps == {"get_ranked_results", "get_k_ranked_results"}

Min(a, b) == IF a <= b THEN a ELSE b

\* the scores, position by position, of a returned sequence of inserted words
ScoresOf(words) == [i \in 1..Len(words) |-> inserted[words[i]]]

\* ---------------------------------------------------------------- claims

\* C1: after any sequence of inserts, search(w) returns Some(w) for every
\* word w that was inserted, the empty string included.
C1_SearchFindsEveryInserted ==
    (lastCall.op = "search" /\ lastCall.arg \in InsertedWords) => lastCall.result = Some(lastCall.arg)

\* C2: for every inserted word w and every prefix p of w, from the empty
\* prefix up to w itself, starts_with(p) returns Some(p), whether or not p
\* is itself an inserted word.
C2_PrefixContainment ==
    (lastCall.op = "starts_with" /\ PrefixOfInserted(lastCall.arg)) => lastCall.result = Some(lastCall.arg)

C2_Witness ==
    /\ lastCall.op = "starts_with"
    /\ lastCall.arg # <<>>
    /\ lastCall.arg \notin InsertedWords
    /\ \E w \in InsertedWords : ProperlyExtends(w, lastCall.arg)
    /\ lastCall.result = Some(lastCall.arg)

\* C3: search(s) returns None for every string s that was never inserted,
\* both when a character transition of s is missing and when s is matched by
\* a path that ends on an Intermediate node.
C3_SearchMissesNeverInserted ==
    (lastCall.op = "search" /\ lastCall.arg \notin InsertedWords) => lastCall.result = None

C3_Witness ==
    /\ lastCall.op = "search"
    /\ lastCall.arg # <<>>
    /\ lastCall.arg \notin InsertedWords
    /\ \E w \in InsertedWords : ProperlyExtends(w, lastCall.arg)
    /\ lastCall.result = None

\* C4 as stated: in every reachable state, the fresh trie included,
\* starts_with(s) returns None for every string s that is not a prefix of
\* any inserted word.
C4_StartsWithMissesNonPrefix ==
    (lastCall.op = "starts_with" /\ ~PrefixOfInserted(lastCall.arg)) => lastCall.result = None

\* C4 amended: in every reachable state, the fresh trie included,
\* starts_with(s) returns None for every non-empty string s that is not a
\* prefix of any inserted word; starts_with of the empty string returns
\* Some of the empty string in every state.
C4_StartsWithMissesNonEmptyNonPrefix ==
    /\ (lastCall.op = "starts_with" /\ lastCall.arg # <<>> /\ ~PrefixOfInserted(lastCall.arg))
            => lastCall.result = None
    /\ (lastCall.op = "starts_with" /\ lastCall.arg = <<>>) => lastCall.result = Some(<<>>)

C4_Witness ==
    /\ lastCall.op = "starts_with"
    /\ lastCall.arg # <<>>
    /\ InsertedWords # {}
    /\ ~PrefixOfInserted(lastCall.arg)
    /\ \E w \in InsertedWords : IsPrefix(SubSeq(lastCall.arg, 1, Len(lastCall.arg) - 1), w)
    /\ lastCall.result = None

\* C5: a present result of get_ranked_results(p) and of
\* get_k_ranked_results(p, k) is ordered by descending word score: of two
\* consecutive returned words, the score most recently inserted for the first
\* is >= the one most recently inserted for the second.
C5_DescendingWordScore ==
    (lastCall.op \in RankedOps /\ lastCall.result.some) =>
        \A i \in 1..(Len(lastCall.result.val) - 1) :
            /\ lastCall.result.val[i] \in InsertedWords
            /\ lastCall.result.val[i + 1] \in InsertedWords
            /\ inserted[lastCall.result.val[i]] >= inserted[lastCall.result.val[i + 1]]

C5_Witness ==
    /\ lastCall.op = "get_k_ranked_results"
    /\ lastCall.k > 0
    /\ lastCall.result.some
    /\ Len(lastCall.result.val) >= 2
    /\ inserted[lastCall.result.val[1]] > inserted[lastCall.result.val[2]]

\* C6: for every non-empty prefix p whose path exists, get_ranked_results(p)
\* holds every inserted word that properly extends p exactly once, and every
\* returned string is an inserted word that begins with p.
C6_UnboundedCompleteAndSound ==
    (lastCall.op = "get_ranked_results" /\ lastCall.arg # <<>> /\ lastCall.result.some) =>
        /\ \A w \in InsertedWords :
               ProperlyExtends(w, lastCall.arg) =>
                   Cardinality({i \in DOMAIN lastCall.result.val : lastCall.result.val[i] = w}) = 1
        /\ \A i \in DOMAIN lastCall.result.val :
               /\ lastCall.result.val[i] \in InsertedWords
               /\ IsPrefix(lastCall.arg, lastCall.result.val[i])

C6_Witness ==
    /\ lastCall.op = "get_ranked_results"
    /\ lastCall.arg # <<>>
    /\ lastCall.arg \in InsertedWords
    /\ lastCall.result.some
    /\ \E w \in InsertedWords : ProperlyExtends(w, lastCall.arg)
    /\ Len(lastCall.result.val) = 2

\* C7: get_ranked_results(p) and get_k_ranked_results(p, k) return None
\* exactly when the character path of p does not exist, and a present
\* sequence, possibly empty, whenever it exists.
C7_AbsentIffNoPath ==
    (lastCall.op \in RankedOps) =>
        /\ (lastCall.result = None) <=> ~PathExists(lastCall.arg)
        /\ PathExists(lastCall.arg) => lastCall.result.some

C7_Witness ==
    /\ lastCall.op \in RankedOps
    /\ lastCall.arg # <<>>
    /\ PathExists(lastCall.arg)
    /\ \E s \in Words : ~PathExists(s)
    /\ lastCall.result.some

\* C8: when the prefix p is itself an inserted word and no inserted word
\* properly extends p, get_ranked_results(p) returns a present, empty
\* sequence: the prefix word itself is not among the completions.
C8_PrefixWordNotACompletion ==
    (/\ lastCall.op = "get_ranked_results"
     /\ lastCall.arg \in InsertedWords
     /\ ~\E w \in InsertedWords : ProperlyExtends(w, lastCall.arg))
        => lastCall.result = Some(<<>>)

\* C9: for every k > 0, a present result of get_k_ranked_results(p, k) has
\* length at most k.
C9_AtMostK ==
    (lastCall.op = "get_k_ranked_results" /\ lastCall.k > 0 /\ lastCall.result.some) =>
        Len(lastCall.result.val) <= lastCall.k

\* C10: for every present prefix p and k > 0, with n the length of
\* get_ranked_results(p), the first min(k, n) entries of
\* get_k_ranked_results(p, k) carry the same word scores, position by
\* position, as the first min(k, n) entries of get_ranked_results(p).
C10_TopKScoresAgree ==
    (lastCall.op = "get_k_ranked_results" /\ lastCall.k > 0 /\ lastCall.result.some) =>
        \A unbounded \in get_ranked_results(root, lastCall.arg) :
            \A i \in 1..Min(lastCall.k, Len(unbounded.val)) :
                /\ i <= Len(lastCall.result.val)
                /\ ScoresOf(lastCall.result.val)[i] = ScoresOf(unbounded.val)[i]

\* ---------------------------------------------------------------- the tree, for the claims
\* the trie has a node at the end of the character path
RECURSIVE HasNode(_, _)
HasNode(node, path) ==
    \/ path = <<>>
    \/ /\ Head(path) \in DOMAIN node.children
       /\ HasNode(node.children[Head(path)], Tail(path))

\* that node
RECURSIVE NodeAt(_, _)
NodeAt(node, path) ==
    IF path = <<>> THEN node ELSE NodeAt(node.children[Head(path)], Tail(path))

\* the paths of the nodes of the trie, the root's (the empty path) included
Paths(trie) == {p \in Words : HasNode(trie, p)}

\* the nodes entered by the characters of w: the path of w without the root
PathNodes(trie, w) == {NodeAt(trie, SubSeq(w, 1, i)) : i \in 1..Len(w)}

\* C11, the state an insert leaves: the terminal node of every inserted word
\* holds the score of its latest insertion, and every node on its path has a
\* node_score >= the greatest score the word was ever inserted with.
C11_LatestAtTerminal ==
    \A w \in InsertedWords :
        /\ HasNode(root, w)
        /\ NodeAt(root, w).word_score = Some(inserted[w])
        /\ \A n \in PathNodes(root, w) : n.node_score >= best[w]

\* C11, the step: no call lowers the node_score of any node.
C11_NeverLowered ==
    \A p \in Paths(root) :
        /\ HasNode(root', p)
        /\ NodeAt(root', p).node_score >= NodeAt(root, p).node_score

C12_EmptyPrefixListsAll ==
    (/\ lastCall.op = "get_ranked_results"
     /\ lastCall.arg = <<>>
     /\ <<>> \notin InsertedWords)
        => /\ lastCall.result.some
           /\ \A w \in InsertedWords :
                  Cardinality({i \in DOMAIN lastCall.result.val : lastCall.result.val[i] = w}) = 1
           /\ \A i \in DOMAIN lastCall.result.val : lastCall.result.val[i] \in InsertedWords
           /\ \A i \in 1..(Len(lastCall.result.val) - 1) :
                  inserted[lastCall.result.val[i]] >= inserted[lastCall.result.val[i + 1]]

\* the paths of the Final nodes at or below the node of path p
FinalsBelow(trie, p) ==
    {q \in Paths(trie) : IsPrefix(p, q) /\ NodeAt(trie, q).node_type = Final}

\* C13: after any sequence of inserts, every node entered by a character of
\* an inserted word w has a node_score >= every score w was inserted with,
\* and no Final node in the subtree of a non-root node n has a word_score
\* greater than n.node_score. (Stated of the trie between calls: a query
\* takes &self and leaves the trie it reads as it is.)
C13_Aggregation ==
    Idle =>
        /\ \A w \in InsertedWords :
               \A n \in PathNodes(root, w) :
                   n.node_score >= inserted[w] /\ n.node_score >= best[w]
        /\ \A p \in Paths(root) \ {<<>>} :
               \A q \in FinalsBelow(root, p) :
                   /\ NodeAt(root, q).word_score.some
                   /\ NodeAt(root, q).word_score.val <= NodeAt(root, p).node_score

C13_Witness ==
    \E p \in Paths(root) \ {<<>>} :
        \E q \in FinalsBelow(root, p) :
            /\ q # p
            /\ NodeAt(root, p).node_type = Intermediate
            /\ NodeAt(root, q).word_score.val > 0
            /\ NodeAt(root, p).node_score = NodeAt(root, q).word_score.val

\* the greatest element of a non-empty set of integers
SetMax(S) == CHOOSE x \in S : \A y \in S : y <= x

\* the greatest current word_score of the Final nodes at or below the node of path p
CurrentMaxBelow(trie, p) ==
    SetMax({NodeAt(trie, q).word_score.val : q \in FinalsBelow(trie, p)})

\* the greatest score any word passing through the node of path p was ever inserted with
EverMaxThrough(p) == SetMax({best[w] : w \in {v \in InsertedWords : IsPrefix(p, v)}})

\* C14 as stated: after any sequence of insert_with_score calls, for every
\* non-root node n, n.node_score equals the maximum of the current
\* word_score values of the Final nodes in the subtree rooted at n.
C14_NodeScoreExact ==
    \A p \in Paths(root) \ {<<>>} :
        NodeAt(root, p).node_score = CurrentMaxBelow(root, p)

\* C14 amended: for every non-root node n, n.node_score equals the greatest
\* of 0 and of all scores that words passing through n were ever inserted
\* with; it is never below the maximum of the current word_score values of
\* the Final nodes in the subtree rooted at n. (Stated of the trie between
\* calls.)
C14_NodeScoreRunningMax ==
    Idle =>
        \A p \in Paths(root) \ {<<>>} :
            /\ NodeAt(root, p).node_score = Max(0, EverMaxThrough(p))
            /\ NodeAt(root, p).node_score >= CurrentMaxBelow(root, p)

C14_Witness ==
    \E p \in Paths(root) \ {<<>>} :
        /\ CurrentMaxBelow(root, p) < 0
        /\ NodeAt(root, p).node_score = 0
        /\ Cardinality(FinalsBelow(root, p)) = 2

\* C15: in every state reachable by insert / insert_with_score calls with
\* arbitrary strings, the empty string included, the root node has no value,
\* has kind Intermediate and has no word_score.
C15_RootNeverFinal ==
    /\ root.value = None
    /\ root.node_type = Intermediate
    /\ root.word_score = None

\* the words of a result
ToSet(words) == {words[i] : i \in DOMAIN words}

\* the scores the words of a result were last inserted with, in its order
ResultScores(words) == [i \in DOMAIN words |-> inserted[words[i]]]

\* C16: with the same insert / insert_with_score calls applied to the Trie
\* and to the ArenaTrie, search(s) and starts_with(s) return equal results
\* for every string s, and get_ranked_results(s) is absent in both or
\* present in both with the same words in the same order up to the order of
\* equal-scored words.
C16_ObservationalEquivalence ==
    /\ lastCall.op \in {"search", "starts_with"} => arenaResult = lastCall.result
    /\ lastCall.op = "get_ranked_results" =>
           /\ arenaResult.some = lastCall.result.some
           /\ lastCall.result.some =>
                  /\ Len(arenaResult.val) = Len(lastCall.result.val)
                  /\ ToSet(arenaResult.val) = ToSet(lastCall.result.val)
                  /\ ResultScores(arenaResult.val) = ResultScores(lastCall.result.val)
====
